---- MODULE Spec2Model ----
(***************************************************************************)
(* The cart state manager of src/src/contexts/CartContext.tsx              *)
(* (CartProvider) together with the Remote Cart API it calls and the       *)
(* cart_items table behind that API.                                       *)
(*                                                                         *)
(* One invocation of refreshCart / addToCart / updateQuantity /            *)
(* removeFromCart is one record of the bag ops while it runs.  An async function *)
(* runs without interruption between two awaited remote calls, so its      *)
(* steps are: the synchronous prefix up to the first remote call (the      *)
(* invoking action), the server handling a request (ServerWrite,           *)
(* ServerRead) and the continuation that runs when the awaited call        *)
(* resolves (WriteReturns, ReadReturns) or rejects (WriteFails, ReadFails). *)
(***************************************************************************)
EXTENDS Integers, Sequences, FiniteSets, Bags, TLC

None == "none"
Users == {"u1", "u2"}
Products == {"p1"}
\* a cart row is identified by its (user_id, product_id) pair: UNIQUE(user_id, product_id)
ItemIds == Users \X Products
\* quantities a caller passes to addToCart / updateQuantity
Quantities == {-1, 0, 2}
\* number of invocations of the asynchronous operations in one behaviour
MaxCalls == 2

VARIABLES
    mounted,   \* the provider's mount effect has run
    user,      \* useAuth().user: a member of Users, or None
    items,     \* useState<CartItem[]>: the local item set
    loading,   \* useState(false): the busy flag
    server,    \* the rows of table cart_items
    ops,       \* the bag of the invocations in flight
    calls,     \* number of invocations that issued a remote call so far
    last,      \* the invocation that completed most recently
    refreshed, \* the item set the last completed refreshCart put into items
    out        \* the value returned by the last call of a getter

vars == <<mounted, user, items, loading, server, ops, calls, last, refreshed, out>>

----------------------------------------------------------------------------
(* The Remote Cart API and the cart_items table *)

OK == "ok"

Row(uid, pid, q) == [user_id |-> uid, product_id |-> pid, quantity |-> q]

\* the CartItem the client sees for a row
CartItemOf(r) ==
    [id |-> <<r.user_id, r.product_id>>, product_id |-> r.product_id,
     quantity |-> r.quantity]

\* row level security: a request touches only the rows of the user it is
\* authenticated as
Visible(srv, auth) == {r \in srv : r.user_id = auth}

\* api.getCartItems(userId), sent with the credentials of auth
GetCartItems(srv, auth, uid) ==
    {CartItemOf(r) : r \in {x \in Visible(srv, auth) : x.user_id = uid}}

\* api.addToCart(userId, productId, quantity): upsert of the row of
\* (userId, productId)
ApiAddToCart(srv, auth, uid, pid, q) ==
    IF auth = uid /\ uid \in Users
    THEN {r \in srv : ~(r.user_id = uid /\ r.product_id = pid)} \cup {Row(uid, pid, q)}
    ELSE srv

\* api.updateCartItem(itemId, quantity)
ApiUpdateCartItem(srv, auth, id, q) ==
    {IF r \in Visible(srv, auth) /\ <<r.user_id, r.product_id>> = id
     THEN Row(r.user_id, r.product_id, q) ELSE r : r \in srv}

\* api.removeFromCart(itemId)
ApiRemoveFromCart(srv, auth, id) ==
    {r \in srv : ~(r \in Visible(srv, auth) /\ <<r.user_id, r.product_id>> = id)}

\* the effect of the write request of op on the table
ApplyWrite(srv, op) ==
    CASE op.call = "addToCart" -> ApiAddToCart(srv, op.auth, op.u, op.arg, op.wq)
      [] op.call = "updateCartItem" -> ApiUpdateCartItem(srv, op.auth, op.arg, op.wq)
      [] op.call = "removeFromCart" -> ApiRemoveFromCart(srv, op.auth, op.arg)
      [] OTHER -> srv

\* the error a failed remote call rejects with
ErrorOf(call) == call \o " failed"

----------------------------------------------------------------------------
(* CartProvider *)

NotLoggedIn == "User must be logged in"

\* if (!user) of refreshCart
RefreshNoUser(u) == u = None

\* variant: the fetch uses the session user of the moment, not the closure's
RefreshUserId_Session(u) == user

\* the user id refreshCart passes to api.getCartItems
RefreshUserId(u) == u

\* variant: the fetched rows are dropped
RefreshSuccessItems_Keep(resp, old) == old

\* variant: the fetched rows are patched into the rows already held
RefreshSuccessItems_Merge(resp, old) == resp \cup old

\* variant: only an empty cart is filled
RefreshSuccessItems_IfEmpty(resp, old) == IF old = {} THEN resp ELSE old

\* setItems(cartItems || []) on a successful fetch
RefreshSuccessItems(resp, old) == resp

\* variant: a failed fetch clears the cart
RefreshFailureItems_Clear(old) == {}

\* the catch branch of refreshCart: nothing is written
RefreshFailureItems(old) == old

\* variant: the login check is missing
AddToCartGuard_Missing(u) == FALSE

\* if (!user) throw of addToCart
AddToCartGuard(u) == u = None

\* variant: only negative quantities are delegated
DelegatesToRemove_Negative(q) == q < 0

\* if (quantity <= 0) of updateQuantity
DelegatesToRemove(q) == q <= 0

\* variant: the catch block throws an error of its own
Rethrow_Wrapped(e) == "Cart operation failed"

\* catch (error) { ...; throw error } of a mutating operation
Rethrow(e) == e

\* variant: the finally block is missing
FinallyLoading_Missing == loading

\* setLoading(false) of a finally block
FinallyLoading == FALSE

\* no invocation: the value of last before any invocation has completed
Idle ==
    [kind |-> "none", u |-> None, arg |-> None, qty |-> 0,
     call |-> "none", wq |-> 0, auth |-> None, ruser |-> None,
     pc |-> "idle", net |-> "none", resp |-> {},
     writes |-> 0, reads |-> 0, outcome |-> "none", err |-> "none",
     solo |-> FALSE, via |-> "context", handler |-> "none"]

Running == BagToSet(ops)
Mutating(op) == op.kind \in {"add", "update", "remove"}
NoneInFlight == Running = {}

\* the record of an invocation that has issued nothing yet; solo records
\* whether the invocation has run with nothing else going on
Blank(kind, u, arg, q) ==
    [kind |-> kind, u |-> u, arg |-> arg, qty |-> q,
     call |-> "none", wq |-> 0, auth |-> None, ruser |-> None,
     pc |-> "start", net |-> "none", resp |-> {},
     writes |-> 0, reads |-> 0, outcome |-> "pending", err |-> "none",
     solo |-> NoneInFlight, via |-> "context", handler |-> "none"]

\* a remote write is issued with the credentials of the session
IssueWrite(op, call, q) ==
    [op EXCEPT !.call = call, !.wq = q, !.auth = user, !.pc = "writing",
               !.writes = @ + 1]

\* api.getCartItems(user.id) of refreshCart is issued, with the credentials
\* of the session of the moment
IssueRead(op, session) ==
    [op EXCEPT !.ruser = RefreshUserId(op.u), !.auth = session, !.pc = "reading",
               !.reads = @ + 1]

Resolve(op) == [op EXCEPT !.pc = "done", !.outcome = "resolved"]
Reject(op, e) == [op EXCEPT !.pc = "done", !.outcome = "rejected", !.err = e]

\* every invocation in flight stops running alone
Disturb(B) ==
    [r \in {[x EXCEPT !.solo = FALSE] : x \in BagToSet(B)} |->
        CopiesIn(r, B) + CopiesIn([r EXCEPT !.solo = TRUE], B)]

\* a new invocation starts running
Launch(op) ==
    /\ calls < MaxCalls
    /\ calls' = calls + 1
    /\ ops' = Disturb(ops) (+) SetToBag({op})

\* invocation op goes on as record new
Continue(op, new) == ops' = (ops (-) SetToBag({op})) (+) SetToBag({new})

\* what is kept of an invocation once it has completed
Summary(op) ==
    [op EXCEPT !.u = None, !.arg = None, !.qty = 0, !.wq = 0, !.auth = None,
               !.ruser = None, !.resp = {}]

\* variant: the handler has no catch, the outcome of addToCart is its own
HandlerOutcome_NoCatch(outcome) == outcome

\* ProductCard: try { await addToCart(product.id) } catch (error) { log }:
\* the handler resolves whatever the outcome of addToCart
HandlerOutcome(outcome) == "resolved"

\* the settled invocation as its caller sees it: one started by the
\* ProductCard handler settles the handler as well
Settle(done) ==
    IF done.via = "card"
    THEN [done EXCEPT !.handler = HandlerOutcome(done.outcome)]
    ELSE done

\* invocation op completes as record done
Complete(op, done) ==
    /\ ops' = ops (-) SetToBag({op})
    /\ last' = Summary(Settle(done))

\* no getter has been called
NoResult == [fn |-> "none", value |-> 0]

Init ==
    /\ mounted = FALSE
    /\ user \in Users \cup {None}
    /\ items = {}
    /\ loading = FALSE
    /\ server = {Row("u1", "p1", 1), Row("u1", "p2", 3), Row("u2", "p1", 2)}
    /\ ops = EmptyBag
    /\ calls = 0
    /\ last = Idle
    /\ refreshed = {}
    /\ out = NoResult

\* refreshCart() up to its first await, in the closure of user u
RefreshCartFrom(u) ==
    IF RefreshNoUser(u)
    THEN /\ items' = {}
         /\ refreshed' = {}
         /\ ops' = Disturb(ops)
         /\ UNCHANGED <<loading, calls>>
    ELSE /\ loading' = TRUE
         /\ Launch(IssueRead(Blank("refresh", u, None, 0), u))
         /\ UNCHANGED <<items, refreshed>>

\* useEffect(() => { refreshCart(); }, [user]) on mount
Mount ==
    /\ ~mounted
    /\ mounted' = TRUE
    /\ RefreshCartFrom(user)
    /\ UNCHANGED <<user, server, last, out>>

\* the session user changes and the effect runs again
SetUser(v) ==
    /\ mounted
    /\ v # user
    /\ user' = v
    /\ RefreshCartFrom(v)
    /\ UNCHANGED <<mounted, server, last, out>>

\* refreshCart() called through the context value
RefreshCart ==
    /\ mounted
    /\ RefreshCartFrom(user)
    /\ UNCHANGED <<mounted, user, server, last, out>>

\* addToCart(productId, quantity) up to its first await, called by via
AddToCartFrom(via, productId, quantity) ==
    /\ mounted
    /\ LET inv == [Blank("add", user, productId, quantity) EXCEPT !.via = via] IN
       IF AddToCartGuard(user)
       THEN /\ last' = Summary(Settle(Reject(inv, NotLoggedIn)))
            /\ UNCHANGED <<loading, ops, calls>>
       ELSE /\ loading' = TRUE
            /\ Launch(IssueWrite(inv, "addToCart", quantity))
            /\ UNCHANGED last
    /\ UNCHANGED <<mounted, user, items, server, refreshed, out>>

\* addToCart called through the context value
AddToCart(productId, quantity) == AddToCartFrom("context", productId, quantity)

\* removeFromCart(itemId) up to its first await, on behalf of operation kind
StartRemove(kind, itemId, q) ==
    IssueWrite(Blank(kind, user, itemId, q), "removeFromCart", 0)

RemoveFromCart(itemId) ==
    /\ mounted
    /\ loading' = TRUE
    /\ Launch(StartRemove("remove", itemId, 0))
    /\ UNCHANGED <<mounted, user, items, server, last, refreshed, out>>

UpdateQuantity(itemId, quantity) ==
    /\ mounted
    /\ loading' = TRUE
    /\ Launch(IF DelegatesToRemove(quantity)
              THEN StartRemove("update", itemId, quantity)
              ELSE IssueWrite(Blank("update", user, itemId, quantity), "updateCartItem", quantity))
    /\ UNCHANGED <<mounted, user, items, server, last, refreshed, out>>

\* variant: clearing also deletes the rows of the session user
ClearCart_Remote ==
    /\ mounted
    /\ items' = {}
    /\ server' = {r \in server : r.user_id # user}
    /\ ops' = Disturb(ops)
    /\ UNCHANGED <<mounted, user, loading, calls, last, refreshed, out>>

ClearCart ==
    /\ mounted
    /\ items' = {}
    /\ ops' = Disturb(ops)
    /\ UNCHANGED <<mounted, user, loading, server, calls, last, refreshed, out>>

\* the server handles the write request of invocation op
ServerWrite(op) ==
    /\ op.pc = "writing"
    /\ server' = ApplyWrite(server, op)
    /\ Continue(op, [op EXCEPT !.pc = "written", !.net = OK])
    /\ UNCHANGED <<mounted, user, items, loading, calls, last, refreshed, out>>

\* the awaited write of invocation op rejects: catch (log, rethrow), finally
WriteFails(op) ==
    /\ op.pc = "writing"
    /\ Complete(op, Reject([op EXCEPT !.net = ErrorOf(op.call)], Rethrow(ErrorOf(op.call))))
    /\ loading' = FinallyLoading
    /\ UNCHANGED <<mounted, user, items, server, calls, refreshed, out>>

\* the continuation of a mutating operation after its awaited write:
\* await refreshCart(), in the closure of the invocation
WriteReturns(op) ==
    /\ op.pc = "written"
    /\ IF RefreshNoUser(op.u)
       THEN \* refreshCart clears and returns; finally
            /\ items' = {}
            /\ refreshed' = {}
            /\ Complete(op, Resolve(op))
            /\ loading' = FinallyLoading
       ELSE \* refreshCart issues the fetch
            /\ loading' = TRUE
            /\ Continue(op, IssueRead(op, user))
            /\ UNCHANGED <<items, last, refreshed>>
    /\ UNCHANGED <<mounted, user, server, calls, out>>

\* the server handles the getCartItems request of invocation op
ServerRead(op) ==
    /\ op.pc = "reading"
    /\ Continue(op, [op EXCEPT !.pc = "read", !.net = OK,
                               !.resp = GetCartItems(server, op.auth, op.ruser)])
    /\ UNCHANGED <<mounted, user, items, loading, server, calls, last, refreshed, out>>

\* the continuation of refreshCart after its awaited fetch, and of the
\* mutating operation that awaited refreshCart
ReadReturns(op) ==
    /\ op.pc = "read"
    /\ items' = RefreshSuccessItems(op.resp, items)
    /\ refreshed' = op.resp
    /\ loading' = FinallyLoading
    /\ Complete(op, Resolve(op))
    /\ UNCHANGED <<mounted, user, server, calls, out>>

\* variant: a failed fetch is tried again
ReadFails_Retry(op) ==
    /\ op.pc = "reading"
    /\ Continue(op, IssueRead(op, user))
    /\ UNCHANGED <<mounted, user, items, loading, server, calls, last, refreshed, out>>

\* variant: refreshCart lets the failure of its fetch through
ReadFails_Propagates(op) ==
    /\ op.pc = "reading"
    /\ loading' = FinallyLoading
    /\ Complete(op, Reject([op EXCEPT !.net = ErrorOf("getCartItems")],
                           ErrorOf("getCartItems")))
    /\ UNCHANGED <<mounted, user, items, server, calls, refreshed, out>>

\* the awaited fetch of invocation op rejects: catch (log), finally; the
\* mutating operation that awaited refreshCart goes on to its own finally
ReadFails(op) ==
    /\ op.pc = "reading"
    /\ items' = RefreshFailureItems(items)
    /\ loading' = FinallyLoading
    /\ Complete(op, Resolve([op EXCEPT !.net = ErrorOf("getCartItems")]))
    /\ UNCHANGED <<mounted, user, server, calls, refreshed, out>>

Next ==
    \/ Mount
    \/ \E v \in Users \cup {None} : SetUser(v)
    \/ RefreshCart
    \/ \E p \in Products, q \in Quantities : AddToCart(p, q)
    \/ \E id \in ItemIds, q \in Quantities : UpdateQuantity(id, q)
    \/ \E id \in ItemIds : RemoveFromCart(id)
    \/ ClearCart
    \/ \E op \in Running : ServerWrite(op)
    \/ \E op \in Running : WriteFails(op)
    \/ \E op \in Running : WriteReturns(op)
    \/ \E op \in Running : ServerRead(op)
    \/ \E op \in Running : ReadReturns(op)
    \/ \E op \in Running : ReadFails(op)

Spec == Init /\ [][Next]_vars

\* the provider used through add / update / remove and refresh only:
\* clearCart is never called
NextOps ==
    \/ Mount
    \/ \E v \in Users \cup {None} : SetUser(v)
    \/ RefreshCart
    \/ \E p \in Products, q \in Quantities : AddToCart(p, q)
    \/ \E id \in ItemIds, q \in Quantities : UpdateQuantity(id, q)
    \/ \E id \in ItemIds : RemoveFromCart(id)
    \/ \E op \in Running : ServerWrite(op)
    \/ \E op \in Running : WriteFails(op)
    \/ \E op \in Running : WriteReturns(op)
    \/ \E op \in Running : ServerRead(op)
    \/ \E op \in Running : ReadReturns(op)
    \/ \E op \in Running : ReadFails(op)

SpecOps == Init /\ [][NextOps]_vars

----------------------------------------------------------------------------
(* ProductCard *)

\* the products a card can show
CardProducts == {"p1", "p2"}

\* addToCart = async (productId: string, quantity = 1)
DefaultQuantity == 1

\* if (!user) { return; } of handleAddToCart
CardNoUser(u) == u = None

\* the handler returned at its login check, having called nothing
Returned == [Idle EXCEPT !.kind = "card", !.pc = "done", !.via = "card",
                         !.handler = "returned"]

\* handleAddToCart(e) of the card of product, up to its first await
HandleAddToCart(product) ==
    IF CardNoUser(user)
    THEN /\ mounted
         /\ last' = Returned
         /\ UNCHANGED <<mounted, user, items, loading, server, ops, calls, refreshed, out>>
    ELSE AddToCartFrom("card", product, DefaultQuantity)

\* the provider used through the add-to-cart buttons of product cards only
NextCard ==
    \/ Mount
    \/ \E v \in Users \cup {None} : SetUser(v)
    \/ \E p \in CardProducts : HandleAddToCart(p)
    \/ \E op \in Running : ServerWrite(op)
    \/ \E op \in Running : WriteFails(op)
    \/ \E op \in Running : WriteReturns(op)
    \/ \E op \in Running : ServerRead(op)
    \/ \E op \in Running : ReadReturns(op)
    \/ \E op \in Running : ReadFails(op)

SpecCard == Init /\ [][NextCard]_vars

----------------------------------------------------------------------------
(* The derived aggregates *)

\* variant: the items are counted, not their quantities
TotalItemsStep_Count(total, item) == total + 1

\* (total, item) => total + item.quantity
TotalItemsStep(total, item) == total + item.quantity

RECURSIVE TotalItemsOf(_)
\* its.reduce(TotalItemsStep, 0)
TotalItemsOf(its) ==
    IF its = {} THEN 0
    ELSE LET it == CHOOSE x \in its : TRUE
         IN TotalItemsStep(TotalItemsOf(its \ {it}), it)

\* getTotalItems()
GetTotalItems == TotalItemsOf(items)

\* item.product?.price || 0
PriceOf(item) ==
    IF item.product.present /\ item.product.priced /\ item.product.price # 0
    THEN item.product.price
    ELSE 0

\* variant: the quantity is left out
TotalPriceStep_Unit(total, item) == total + PriceOf(item)

\* (total, item) => total + (price * item.quantity)
TotalPriceStep(total, item) == total + (PriceOf(item) * item.quantity)

RECURSIVE TotalPriceOf(_)
\* its.reduce(TotalPriceStep, 0)
TotalPriceOf(its) ==
    IF its = {} THEN 0
    ELSE LET it == CHOOSE x \in its : TRUE
         IN TotalPriceStep(TotalPriceOf(its \ {it}), it)

\* getTotalPrice()
GetTotalPrice == TotalPriceOf(items)

\* a call of getTotalItems() through the context value
GetTotalItemsCall ==
    /\ mounted
    /\ out' = [fn |-> "getTotalItems", value |-> GetTotalItems]
    /\ UNCHANGED <<mounted, user, items, loading, server, ops, calls, last, refreshed>>

\* a call of getTotalPrice() through the context value
GetTotalPriceCall ==
    /\ mounted
    /\ out' = [fn |-> "getTotalPrice", value |-> GetTotalPrice]
    /\ UNCHANGED <<mounted, user, items, loading, server, ops, calls, last, refreshed>>

\* largest quantity and largest price of the carts the getters are applied to
MaxQty == 2
MaxPrice == 2

\* the product snapshot of a cart item: absent, without a price, or priced
ProductSnapshots ==
    {[present |-> FALSE, priced |-> FALSE, price |-> 0],
     [present |-> TRUE, priced |-> FALSE, price |-> 0]}
    \cup {[present |-> TRUE, priced |-> TRUE, price |-> n] : n \in 0..MaxPrice}

\* the cart items user u1 can hold for product p
PricedItems(p) ==
    {[id |-> <<"u1", p>>, product_id |-> p, quantity |-> q, product |-> ps] :
        q \in 0..MaxQty, ps \in ProductSnapshots}

\* item sets with at most one row per product: UNIQUE(user_id, product_id)
PricedCarts ==
    {{}} \cup {{a} : a \in PricedItems("p1") \cup PricedItems("p2")}
         \cup {{a, b} : a \in PricedItems("p1"), b \in PricedItems("p2")}

\* the provider holding some item set, with nothing in flight
InitTotals ==
    /\ mounted = TRUE
    /\ user = "u1"
    /\ items \in PricedCarts
    /\ refreshed = items
    /\ loading = FALSE
    /\ server = {}
    /\ ops = EmptyBag
    /\ calls = 0
    /\ last = Idle
    /\ out = NoResult

NextTotals ==
    \/ GetTotalItemsCall
    \/ GetTotalPriceCall

SpecTotals == InitTotals /\ [][NextTotals]_vars

----------------------------------------------------------------------------
(* Properties *)

\* what api.getCartItems would return now for the session user
ServerCart == GetCartItems(server, user, user)

\* this step is the completion of the running invocation op
Completes(op) == ops' = ops (-) SetToBag({op})

C2_UserScoped == \A it \in items : it.id[1] = user

\* C3: addToCart invoked without a session user rejects with the login error,
\* issues no remote call and leaves items, the busy flag, the table and the
\* invocations in flight unchanged.
C3_AddToCartUnauthenticated ==
    [][\A p \in Products, q \in Quantities :
        (user = None /\ AddToCart(p, q))
            => /\ last'.kind = "add" /\ last'.outcome = "rejected"
               /\ last'.err = NotLoggedIn
               /\ last'.writes = 0 /\ last'.reads = 0
               /\ UNCHANGED <<items, loading, server, ops, calls>>]_vars

C3_Witness ==
    /\ user = None
    /\ last.kind = "add" /\ last.outcome = "rejected" /\ last.err = NotLoggedIn
    /\ last.writes = 0 /\ last.reads = 0
    /\ NoneInFlight /\ ~loading

\* C4: no mutating operation has a remote write in flight that was invoked
\* without a session user.
C4_NoWriteWithoutUser ==
    \A op \in Running : (Mutating(op) /\ op.writes > 0) => op.u # None

\* C5: updateQuantity(itemId, quantity) with quantity <= 0 starts exactly as
\* removeFromCart(itemId) starts from the same state (same write
\* api.removeFromCart, same busy flag, items and table), and while it runs it
\* is an invocation of removeFromCart in all but name: its only remote write
\* is api.removeFromCart of that item, never api.updateCartItem.
C5_UpdateNonPositiveIsRemove ==
    /\ [][\A id \in ItemIds, q \in Quantities :
            (q <= 0 /\ UpdateQuantity(id, q))
                => /\ ops' = Disturb(ops) (+)
                        SetToBag({[StartRemove("remove", id, 0) EXCEPT !.kind = "update", !.qty = q]})
                   /\ loading' = TRUE
                   /\ UNCHANGED <<items, server, user, last>>]_vars
    /\ [](\A op \in Running :
            (op.kind = "update" /\ op.qty <= 0)
                => op.call = "removeFromCart" /\ op.writes = 1 /\ op.reads <= 1)

C5_Witness ==
    /\ last.kind = "update" /\ last.call = "removeFromCart"
    /\ last.outcome = "resolved" /\ last.net = OK /\ last.reads = 1
    /\ user # None /\ items = {} /\ ServerCart = {}

\* C6: a step that changes the session user (or mounts the provider) to no
\* user empties the local item set and issues no remote call; one that
\* changes it to a user starts exactly one invocation, a refresh whose single
\* getCartItems call carries the new user's id.
C6_UserChange ==
    [][(user' # user \/ mounted' # mounted)
        => IF user' = None
           THEN items' = {} /\ calls' = calls /\ ops' = Disturb(ops)
           ELSE /\ calls' = calls + 1
                /\ \E op \in BagToSet(ops') :
                    /\ ops' = Disturb(ops) (+) SetToBag({op})
                    /\ op.kind = "refresh" /\ op.pc = "reading"
                    /\ op.ruser = user' /\ op.reads = 1 /\ op.writes = 0]_vars

C6_Witness ==
    /\ user = "u2"
    /\ items # {} /\ \A it \in items : it.id[1] = "u1"
    /\ \E op \in Running : op.kind = "refresh" /\ op.ruser = "u2" /\ op.pc = "reading"
    /\ BagCardinality(ops) = 1

\* C7: when the getCartItems call of refreshCart fails, the invocation does
\* not reject, the local item set is left as it was and the busy flag ends
\* false; starting an invocation does not touch the item set either.
C7_RefreshFailureSwallowed ==
    [][/\ \A op \in Running :
            (op.pc = "reading" /\ Completes(op) /\ last'.net # OK)
                => /\ last'.outcome = "resolved" /\ last'.err = "none"
                   /\ items' = items
                   /\ loading' = FALSE
       /\ (calls' # calls => items' = items)]_vars

C7_Witness ==
    /\ last.kind = "refresh" /\ last.net = ErrorOf("getCartItems")
    /\ last.outcome = "resolved"
    /\ items # {} /\ ~loading

\* C8: when the remote write of a mutating operation fails, the operation
\* rejects with the error of that write, has issued no getCartItems call and
\* leaves the local item set unchanged.
C8_WriteFailurePropagates ==
    [][\A op \in Running :
        (op.pc = "writing" /\ Completes(op))
            => /\ last'.outcome = "rejected"
               /\ last'.net = ErrorOf(op.call)
               /\ last'.err = last'.net
               /\ last'.reads = 0
               /\ items' = items]_vars

C8_Witness ==
    /\ last.kind = "update" /\ last.outcome = "rejected"
    /\ last.err = ErrorOf("updateCartItem") /\ last.reads = 0
    /\ items # {}

\* C9: while a mutating operation is in flight the busy flag is true.
C9_BusyWhileMutating == (\E op \in Running : Mutating(op)) => loading

\* C10: whenever no invocation is in flight the busy flag is false.
C10_BusyCleared == NoneInFlight => ~loading

C10_Witness ==
    /\ NoneInFlight /\ ~loading
    /\ calls = MaxCalls
    /\ last.outcome = "rejected"

\* C11: every item of the local item set has quantity >= 1, and no write in
\* flight carries a zero or negative quantity to the Remote Cart API.
C11_QuantityPositive ==
    /\ \A it \in items : it.quantity >= 1
    /\ \A op \in Running :
        (op.pc = "writing" /\ op.call \in {"addToCart", "updateCartItem"}) => op.wq >= 1

\* the quantities of the rows of item set S, added up row by row
RECURSIVE SumQuantitiesOver(_, _)
SumQuantitiesOver(ids, S) ==
    IF ids = {} THEN 0
    ELSE LET id == CHOOSE i \in ids : TRUE
         IN (CHOOSE it \in S : it.id = id).quantity + SumQuantitiesOver(ids \ {id}, S)

SumQuantities(S) == SumQuantitiesOver({it.id : it \in S}, S)

\* C12: as long as the provider is used through add / update / remove and
\* refresh, getTotalItems() is the sum of the quantities of the item set
\* that the last completed refreshCart delivered (the getCartItems response,
\* or the empty set when refreshCart ran without a user).
C12_TotalItems == GetTotalItems = SumQuantities(refreshed)

C12_Witness ==
    /\ Mutating(last) /\ last.outcome = "resolved" /\ last.net = OK
    /\ Cardinality(refreshed) = 2
    /\ items = refreshed
    /\ GetTotalItems = 5

\* the rows of S that have a priced product
Priced(S) == {it \in S : it.product.present /\ it.product.priced}

RECURSIVE SumPricesOver(_, _)
SumPricesOver(ids, S) ==
    IF ids = {} THEN 0
    ELSE LET it == CHOOSE x \in S : x.id = CHOOSE i \in ids : TRUE
         IN it.product.price * it.quantity + SumPricesOver(ids \ {it.id}, S)

\* C13: getTotalPrice() returns the sum of price x quantity over the items
\* that have a priced product; an item without a product, or without a
\* price, contributes 0.
C13_TotalPrice ==
    out.fn = "getTotalPrice"
        => out.value = SumPricesOver({it.id : it \in Priced(items)}, Priced(items))

C13_Witness ==
    /\ out.fn = "getTotalPrice"
    /\ out.value = 4
    /\ \E it \in items : ~it.product.present /\ it.quantity > 0
    /\ \E it \in items : it.product.priced /\ it.product.price = 2 /\ it.quantity = 2

\* C14: clearCart empties the local item set and nothing else: no remote
\* call is issued, the table, the busy flag and the session user stay as
\* they are; so a refreshCart that then runs alone puts the server's rows of
\* the session user back into the local item set.
C14_ClearCartLocalOnly ==
    [][/\ ClearCart
            => /\ items' = {}
               /\ ops' = Disturb(ops)
               /\ UNCHANGED <<mounted, user, loading, server, calls, last>>
       /\ \A op \in Running :
            (op.kind = "refresh" /\ op.pc = "read" /\ op.solo /\ Completes(op))
                => items' = GetCartItems(server', user', user')]_vars

C14_Witness ==
    /\ user # None /\ NoneInFlight /\ ~loading
    /\ last.kind = "refresh" /\ last.outcome = "resolved" /\ last.net = OK /\ last.solo
    /\ items = {}
    /\ ServerCart # {}

\* C15: the local item set is the item set of the refreshCart that completed
\* last, at every moment and so once all concurrent operations have
\* completed, also when that response is older than the server's final state.
C15_LastRefreshWins == items = refreshed

C15_Witness ==
    /\ NoneInFlight /\ calls = 2
    /\ last.outcome = "resolved" /\ last.net = OK /\ ~last.solo
    /\ items = refreshed
    /\ items # {} /\ \A it \in items : it.id[1] = user
    /\ items # ServerCart

\* C16: the local item set only ever changes to the empty set or to the
\* complete response of one getCartItems call.
C16_WholesaleReplacement ==
    [][\/ items' = items
       \/ items' = {}
       \/ \E op \in Running : op.pc = "read" /\ Completes(op) /\ items' = op.resp]_vars

C16_Witness ==
    /\ Mutating(last) /\ last.outcome = "resolved" /\ last.net = OK /\ ~last.solo
    /\ Cardinality(items) = 2
    /\ items = ServerCart

\* C17: a mutating operation whose remote write succeeded has issued exactly
\* one getCartItems call, after the write returned, by the time it completes.
C17_ReReadAfterWrite ==
    /\ (Mutating(last) /\ last.outcome = "resolved") => last.reads = 1
    /\ \A op \in Running :
        (Mutating(op) /\ op.reads > 0) => op.writes = 1 /\ op.pc \in {"reading", "read"}

\* C18: one invocation issues at most one remote write and at most one
\* getCartItems call; a refreshCart issues no write.
C18_NoRetry ==
    /\ \A op \in Running :
        /\ op.writes <= 1 /\ op.reads <= 1
        /\ op.kind = "refresh" => op.writes = 0
    /\ last.writes <= 1 /\ last.reads <= 1
    /\ last.kind = "refresh" => last.writes = 0

C18_Witness ==
    /\ last.net = ErrorOf("getCartItems") /\ last.writes = 1 /\ last.reads = 1
    /\ last.solo /\ NoneInFlight

\* C19: a mutating operation rejects exactly when its login check or its
\* remote write fails; when the write succeeds and the getCartItems call
\* fails, it resolves and the local item set is left as it was.
C19_RejectsIffWriteFails ==
    [][/\ \A op \in Running :
            (Mutating(op) /\ Completes(op))
                => /\ last'.outcome \in {"resolved", "rejected"}
                   /\ last'.outcome = "rejected" <=> last'.net = ErrorOf(op.call)
                   /\ last'.net = ErrorOf(op.call) <=> op.pc = "writing"
                   /\ last'.net = ErrorOf("getCartItems")
                        => last'.outcome = "resolved" /\ items' = items
       /\ \A p \in Products, q \in Quantities :
            AddToCart(p, q)
                => IF user = None THEN last'.outcome = "rejected" ELSE last' = last]_vars

C19_Witness ==
    /\ Mutating(last) /\ last.outcome = "resolved"
    /\ last.net = ErrorOf("getCartItems") /\ last.writes = 1 /\ last.solo
    /\ NoneInFlight /\ user # None
    /\ items # ServerCart

\* C20: the add-to-cart handler of a product card, run without a session
\* user, returns without calling addToCart: no invocation starts, no remote
\* call is issued and nothing is thrown; run with a user it starts exactly one
\* addToCart for the card's product with quantity 1, and whatever the outcome
\* of that addToCart the handler resolves.
C20_CardHandler ==
    [][/\ \A p \in CardProducts :
            HandleAddToCart(p)
                => IF user = None
                   THEN /\ UNCHANGED <<items, loading, server, ops, calls>>
                        /\ last'.handler = "returned" /\ last'.outcome = "none"
                        /\ last'.writes = 0 /\ last'.reads = 0
                   ELSE /\ calls' = calls + 1
                        /\ \E op \in BagToSet(ops') :
                            /\ ops' = Disturb(ops) (+) SetToBag({op})
                            /\ op.kind = "add" /\ op.call = "addToCart"
                            /\ op.u = user /\ op.arg = p
                            /\ op.qty = 1 /\ op.wq = 1 /\ op.writes = 1
       /\ \A op \in Running :
            (op.via = "card" /\ Completes(op)) => last'.handler = "resolved"
       /\ last'.handler # "rejected"]_vars

C20_Witness ==
    /\ last.via = "card" /\ last.kind = "add"
    /\ last.outcome = "rejected" /\ last.handler = "resolved"
    /\ last.net = ErrorOf("addToCart") /\ last.writes = 1

====
